---- MODULE Spec2Model ----
(***************************************************************************)
(* Model of trust_trade_stars_bot.py: the in-memory membership store, the  *)
(* catalog, the member-document gate, invoicing and the handlers that the  *)
(* application registers.  Strings that the code parses, compares or       *)
(* formats (product keys, callback data, invoice payloads) are sequences   *)
(* of one-character strings, so that split, startswith, lower and the      *)
(* f-string formatting are computed as the code computes them.  Time is    *)
(* counted in whole days.                                                  *)
(***************************************************************************)
EXTENDS Integers, Sequences, FiniteSets, TLC

VARIABLES MEMBERS, now, ticks, lastOp, lastPaid, tasks, grants

vars == <<MEMBERS, now, ticks, lastOp, lastPaid, tasks, grants>>

(***************************** bounds **************************************)
\* number of clock advances explored
MaxTicks == 1

\* the user whose updates are followed and one other user
Users == {1, 2}

\* the clock advances to the last day of a membership period that starts
\* now, or to the first day after it
TickSteps == {30, 31}

(***************************** strings *************************************)
COLON == ":"

\* "x in s" for a one-character x
Contains(s, c) == \E i \in 1..Len(s) : s[i] = c

\* index of the first occurrence of c in s (0 when absent)
FirstIndex(s, c) ==
    IF Contains(s, c) THEN CHOOSE i \in 1..Len(s) : s[i] = c /\ \A j \in 1..(i-1) : s[j] # c
    ELSE 0

\* s.split(c)[0]
SplitHead(s, c) == IF Contains(s, c) THEN SubSeq(s, 1, FirstIndex(s, c) - 1) ELSE s

\* s.split(c, 1)[1], defined when c occurs in s
SplitTail1(s, c) == SubSeq(s, FirstIndex(s, c) + 1, Len(s))

\* s.startswith(p)
StartsWith(s, p) == Len(s) >= Len(p) /\ SubSeq(s, 1, Len(p)) = p

LowerMap ==
    [c \in {"A","B","C","D","E","F","G","H","I","J","K","L","M","N","O","P","Q","R","S","T","U","V","W","X","Y","Z"} |->
        CASE c = "A" -> "a" [] c = "B" -> "b" [] c = "C" -> "c" [] c = "D" -> "d"
          [] c = "E" -> "e" [] c = "F" -> "f" [] c = "G" -> "g" [] c = "H" -> "h"
          [] c = "I" -> "i" [] c = "J" -> "j" [] c = "K" -> "k" [] c = "L" -> "l"
          [] c = "M" -> "m" [] c = "N" -> "n" [] c = "O" -> "o" [] c = "P" -> "p"
          [] c = "Q" -> "q" [] c = "R" -> "r" [] c = "S" -> "s" [] c = "T" -> "t"
          [] c = "U" -> "u" [] c = "V" -> "v" [] c = "W" -> "w" [] c = "X" -> "x"
          [] c = "Y" -> "y" [] c = "Z" -> "z"]

\* str.lower()
Lower(s) == [i \in 1..Len(s) |-> IF s[i] \in DOMAIN LowerMap THEN LowerMap[s[i]] ELSE s[i]]

DigitChar == <<"0","1","2","3","4","5","6","7","8","9">>

RECURSIVE IntToStr(_)
\* the decimal rendering of a non-negative integer inside an f-string
IntToStr(n) == IF n < 10 THEN <<DigitChar[n + 1]>>
               ELSE IntToStr(n \div 10) \o <<DigitChar[(n % 10) + 1]>>

(***************************** membership store ****************************)
MEMBERSHIP_DURATION_DAYS == 30

NoRecord == [tier |-> <<>>, paid_at |-> -1]

\* MEMBERS.get(user_id) is falsy
Absent(members, user_id) == members[user_id] = NoRecord

\* variant: the store is rebuilt around the new record
SetMember_replaces_store(members, user_id, tier, t) ==
    [v \in DOMAIN members |->
        IF v = user_id THEN [tier |-> tier, paid_at |-> t] ELSE NoRecord]

\* variant: the start of an existing record is renewed, its tier is not
SetMember_time_only(members, user_id, tier, t) ==
    [members EXCEPT ![user_id] =
        [tier |-> IF members[user_id] = NoRecord THEN tier ELSE members[user_id].tier,
         paid_at |-> t]]

\* variant: a grant to a user who has a record keeps that record's start
SetMember_keep_start(members, user_id, tier, t) ==
    [members EXCEPT ![user_id] =
        [tier |-> tier,
         paid_at |-> IF members[user_id] = NoRecord THEN t ELSE members[user_id].paid_at]]

\* variant: a grant of the tier the user already holds leaves the record alone
SetMember_same_tier_kept(members, user_id, tier, t) ==
    IF members[user_id] # NoRecord /\ members[user_id].tier = tier THEN members
    ELSE [members EXCEPT ![user_id] = [tier |-> tier, paid_at |-> t]]

\* MEMBERS[user_id] = {"tier": tier, "paid_at": datetime.utcnow()}
SetMember(members, user_id, tier, t) ==
    [members EXCEPT ![user_id] = [tier |-> tier, paid_at |-> t]]

\* variant: the membership lapses when the thirtieth day is reached
is_member_lapses_on_day_30(members, user_id, t) ==
    IF Absent(members, user_id) THEN FALSE
    ELSE t - members[user_id].paid_at < MEMBERSHIP_DURATION_DAYS

\* rec and datetime.utcnow() - rec["paid_at"] <= timedelta(days=MEMBERSHIP_DURATION_DAYS)
is_member(members, user_id, t) ==
    IF Absent(members, user_id) THEN FALSE
    ELSE t - members[user_id].paid_at <= MEMBERSHIP_DURATION_DAYS

NoTier == <<"N","o","n","e">>

tier_of(members, user_id, t) ==
    IF is_member(members, user_id, t) THEN members[user_id].tier ELSE NoTier

MEM_FREE == <<"m","e","m","-","f","r","e","e">>

\* variant: every active member, the free tier included, gets the member rate
can_use_member_doc_any_tier(members, user_id, t) ==
    tier_of(members, user_id, t) # NoTier /\ tier_of(members, user_id, t) # <<>>

can_use_member_doc(members, user_id, t) ==
    LET tr == tier_of(members, user_id, t)
    IN  tr # NoTier /\ tr # <<>> /\ tr # MEM_FREE

(***************************** catalog *************************************)
MEMBERSHIP_TIERS ==
    << [key |-> MEM_FREE, stars |-> 0],
       [key |-> <<"m","e","m","-","v","e","r","i","f","i","e","d">>, stars |-> 550],
       [key |-> <<"m","e","m","-","p","r","o">>, stars |-> 1500],
       [key |-> <<"m","e","m","-","v","i","p">>, stars |-> 5000],
       [key |-> <<"m","e","m","-","k","i","n","g">>, stars |-> 300000] >>

PER_DOC_MEMBER == [key |-> <<"v","e","r","i","f","y">>, stars |-> 150]
PER_DOC_GUEST == [key |-> <<"v","e","r","i","f","y","-","g","u","e","s","t">>, stars |-> 350]

NoProduct == [key |-> NoTier, stars |-> -1]

\* variant: a key that matches nothing is sold as the guest-priced document
find_product_defaults_to_guest(key) ==
    IF key = PER_DOC_MEMBER.key THEN PER_DOC_MEMBER
    ELSE IF \E i \in 1..Len(MEMBERSHIP_TIERS) : MEMBERSHIP_TIERS[i].key = key
    THEN MEMBERSHIP_TIERS[CHOOSE i \in 1..Len(MEMBERSHIP_TIERS) : MEMBERSHIP_TIERS[i].key = key]
    ELSE PER_DOC_GUEST

find_product(key) ==
    IF key = PER_DOC_MEMBER.key THEN PER_DOC_MEMBER
    ELSE IF key = PER_DOC_GUEST.key THEN PER_DOC_GUEST
    ELSE IF \E i \in 1..Len(MEMBERSHIP_TIERS) : MEMBERSHIP_TIERS[i].key = key
         THEN MEMBERSHIP_TIERS[CHOOSE i \in 1..Len(MEMBERSHIP_TIERS) :
                                   /\ MEMBERSHIP_TIERS[i].key = key
                                   /\ \A j \in 1..(i-1) : MEMBERSHIP_TIERS[j].key # key]
    ELSE NoProduct

MEM_PREFIX == <<"m","e","m","-">>
MEM_VERIFIED == MEMBERSHIP_TIERS[2]
MEM_PRO == MEMBERSHIP_TIERS[3]
MEM_KING == MEMBERSHIP_TIERS[5]

(***************************** admin alerts ********************************)
ADMIN_IDS == <<901, 902>>

NoAlert == [kind |-> "none", amount |-> -1, payload |-> <<>>, attempts |-> <<>>]

\* variant: the loop ends at the first recipient that cannot be reached
Attempts_stop_at_failure(failing) ==
    LET n == IF \E i \in 1..Len(ADMIN_IDS) : ADMIN_IDS[i] \in failing
             THEN CHOOSE i \in 1..Len(ADMIN_IDS) :
                      /\ ADMIN_IDS[i] \in failing
                      /\ \A j \in 1..(i-1) : ADMIN_IDS[j] \notin failing
             ELSE Len(ADMIN_IDS)
    IN  [i \in 1..n |-> [to |-> ADMIN_IDS[i], ok |-> ADMIN_IDS[i] \notin failing]]

\* The send_message calls attempted, in order: one per configured admin;
\* an exception (recipient in failing) is logged and the loop goes on.
Attempts(failing) ==
    [i \in 1..Len(ADMIN_IDS) |-> [to |-> ADMIN_IDS[i], ok |-> ADMIN_IDS[i] \notin failing]]

admin_alert(kind, amount, payload, failing) ==
    IF ADMIN_IDS = <<>> THEN NoAlert
    ELSE [kind |-> kind, amount |-> amount, payload |-> payload, attempts |-> Attempts(failing)]

admin_info(failing) ==
    [kind |-> "info", amount |-> -1, payload |-> <<>>, attempts |-> Attempts(failing)]

(***************************** invoicing ***********************************)
\* the invoice handed to bot.send_invoice and whether the transport took
\* it; NoInvoice when bot.send_invoice is not called
NoInvoice == [payload |-> <<>>, amount |-> -1, delivered |-> FALSE]

TransportOutcomes == {"ok", "BadRequest", "TelegramError"}

\* variant: the reference names the product only
InvoicePayload_key_only(product) == product.key

\* f"{product.key}:{product.stars}"
InvoicePayload(product) == product.key \o <<COLON>> \o IntToStr(product.stars)

\* prices=[LabeledPrice(amount=product.stars)], payload=f"{product.key}:{product.stars}"
Invoice(product, tr) ==
    [payload |-> InvoicePayload(product), amount |-> product.stars, delivered |-> tr = "ok"]

\* variant: the free tier is invoiced like every other product
send_invoice_free_invoiced(members, product, user_id, t, tr, replyOk, failing) ==
    IF tr = "ok"
    THEN [members |-> members, reply |-> "none",
          invoice |-> Invoice(product, tr),
          alert |-> NoAlert, raised |-> FALSE]
    ELSE [members |-> members, reply |-> "payment_unavailable",
          invoice |-> Invoice(product, tr), alert |-> NoAlert, raised |-> FALSE]

\* variant: a transport error is swallowed and nothing is said
send_invoice_swallows_errors(members, product, user_id, t, tr, replyOk, failing) ==
    IF product.key = MEM_FREE
    THEN [members |-> SetMember(members, user_id, MEM_FREE, t),
          reply   |-> IF replyOk THEN "free_activated" ELSE "none",
          invoice |-> NoInvoice,
          alert   |-> IF replyOk THEN admin_alert("Membership", 0, <<"F","R","E","E">>, failing)
                      ELSE NoAlert,
          raised  |-> ~replyOk]
    ELSE [members |-> members, reply |-> "none", invoice |-> Invoice(product, tr),
          alert |-> NoAlert, raised |-> FALSE]

\* The effect of send_invoice(chat_id, product, context, user_id): the new
\* store, the reply shown to the user, the invoice handed to the transport,
\* the admin notification and whether the call raised.
send_invoice(members, product, user_id, t, tr, replyOk, failing) ==
    IF product.key = MEM_FREE
    THEN [members |-> SetMember(members, user_id, MEM_FREE, t),
          reply   |-> IF replyOk THEN "free_activated" ELSE "none",
          invoice |-> NoInvoice,
          alert   |-> IF replyOk THEN admin_alert("Membership", 0, <<"F","R","E","E">>, failing)
                      ELSE NoAlert,
          raised  |-> ~replyOk]
    ELSE IF tr = "ok"
    THEN [members |-> members, reply |-> "none",
          invoice |-> Invoice(product, tr),
          alert |-> NoAlert, raised |-> FALSE]
    ELSE IF tr = "BadRequest" /\ product.key = MEM_KING.key
    THEN [members |-> members,
          reply   |-> IF replyOk THEN "manual_arrangement" ELSE "none",
          invoice |-> Invoice(product, tr),
          alert   |-> IF replyOk THEN admin_info(failing) ELSE NoAlert,
          raised  |-> ~replyOk]
    ELSE [members |-> members,
          reply   |-> IF replyOk THEN "payment_unavailable" ELSE "none",
          invoice |-> Invoice(product, tr), alert |-> NoAlert, raised |-> ~replyOk]

(***************************** inputs **************************************)
\* keys arriving after "buy:" in callback data
InputKeys ==
    { MEM_FREE, MEM_VERIFIED.key, MEM_PRO.key, MEMBERSHIP_TIERS[4].key, MEM_KING.key,
      PER_DOC_MEMBER.key, PER_DOC_GUEST.key,
      <<"d","o","c">>, <<"V","e","r","i","f","y">>, <<>> }

\* arguments of a /start deep link (<<>>: no argument)
StartArgs ==
    { MEM_FREE, PER_DOC_MEMBER.key, <<"d","o","c">>, <<"V","e","r","i","f","y">>, <<>> }

BUY_PREFIX == <<"b","u","y",COLON>>

\* successful_payment events: invoice_payload and total_amount
Confirmations ==
    { [payload |-> InvoicePayload(MEM_PRO), amount |-> 1500],
      [payload |-> InvoicePayload(MEM_PRO), amount |-> 999],
      [payload |-> MEM_PRO.key, amount |-> 1500],
      [payload |-> <<"m","e","m","-","x",COLON,"1">>, amount |-> 1],
      [payload |-> <<"M","e","m","-","p","r","o",COLON,"1","5","0","0">>, amount |-> 1500],
      [payload |-> InvoicePayload(PER_DOC_MEMBER), amount |-> 150],
      [payload |-> InvoicePayload(PER_DOC_GUEST), amount |-> 350] }

\* admins whose chat cannot be reached: none, or the first one
FailingSets == {{}, {ADMIN_IDS[1]}}

\* the transport outcomes send_invoice can meet for this product
InvoiceOutcomes(product) == IF product.key = MEM_FREE THEN {"ok"} ELSE TransportOutcomes

\* the outcomes of the message to the user, where send_invoice goes on to
\* notify the admins after it
InvoiceReplies(product, tr) ==
    IF product.key = MEM_FREE \/ (tr = "BadRequest" /\ product.key = MEM_KING.key)
    THEN BOOLEAN ELSE {TRUE}

\* the unreachable admins, where the handler goes on to notify them
Failing(notifies) == IF notifies THEN FailingSets ELSE {{}}

\* send_invoice notifies the admins on these paths
InvoiceNotifies(product, tr, replyOk) ==
    /\ replyOk
    /\ \/ product.key = MEM_FREE
       \/ tr = "BadRequest" /\ product.key = MEM_KING.key

(***************************** state ***************************************)
\* lastOp records the handler that has just run, until it returns to the
\* application (NoOp("none") between updates): the handler, its inputs, what it
\* sent, the active tier of its user just before it ran and the users whose
\* record it changed (dup: the same membership payment of the same user was
\* the last one processed).  lastPaid is the successful payment processed
\* last with no other handler since.
Op(handler, user, data, amount, reply, invoice, alert, raised, dup) ==
    [handler |-> handler, user |-> user, data |-> data, amount |-> amount,
     reply |-> reply, invoice |-> invoice, alert |-> alert,
     raised |-> raised, dup |-> dup,
     prior |-> tier_of(MEMBERS, user, now),
     changed |-> {v \in Users : MEMBERS'[v] # MEMBERS[v]}]

NoOp(handler) ==
    [handler |-> handler, user |-> 0, data |-> <<>>, amount |-> -1,
     reply |-> "none", invoice |-> NoInvoice, alert |-> NoAlert,
     raised |-> FALSE, dup |-> FALSE, prior |-> NoTier, changed |-> {}]

NoPaid == [user |-> 0, payload |-> <<>>, amount |-> -1]

\* handlers that may be in flight at once
TaskIds == {1, 2}

\* a handler in flight: the await it is suspended at, its user and the
\* record it has written so far (NoTask: the slot is free)
NoTask == [handler |-> "none", pc |-> "idle", user |-> 0, wrote |-> NoRecord]

Init ==
    /\ MEMBERS = [u \in Users |-> NoRecord]
    /\ now = 0
    /\ ticks = 0
    /\ lastOp = NoOp("none")
    /\ lastPaid = NoPaid
    /\ tasks = [t \in TaskIds |-> NoTask]
    /\ grants = [u \in Users |-> NoRecord]

\* the application waits for the next update: no handler is running
Ready == lastOp.handler = "none"

\* the handler that ran has returned and the application polls again
HandlerReturns ==
    /\ ~Ready
    /\ lastOp' = NoOp("none")
    /\ UNCHANGED <<MEMBERS, now, ticks, lastPaid, tasks, grants>>

\* the wall clock read by datetime.utcnow() moves forward between updates
Tick ==
    /\ Ready
    /\ ticks < MaxTicks
    /\ \E d \in TickSteps : now' = now + d
    /\ ticks' = ticks + 1
    /\ UNCHANGED <<MEMBERS, lastOp, lastPaid, tasks, grants>>

(***************************** handlers ************************************)
\* a handler that only answers the callback and replies with fixed copy
ReplyOnly(handler, reply) ==
    \E u \in Users :
        /\ Ready
        /\ UNCHANGED <<MEMBERS, now, ticks>>
        /\ lastOp' = Op(handler, u, <<>>, -1, reply, NoInvoice, NoAlert, FALSE, FALSE)
        /\ lastPaid' = NoPaid
        /\ UNCHANGED <<tasks, grants>>

on_menu_home == ReplyOnly("on_menu_home", "intro")

on_back == ReplyOnly("on_back", "back")

on_restart == ReplyOnly("on_restart", "intro")

on_info == ReplyOnly("on_info", "what_we_verify")

on_king == ReplyOnly("on_king", "king_details")

\* the denial shown when the member-document gate refuses: a reply, nothing else
Deny(handler, u, data) ==
    /\ UNCHANGED MEMBERS
    /\ lastOp' = Op(handler, u, data, -1, "member_doc_denied", NoInvoice, NoAlert, FALSE, FALSE)

\* await send_invoice(chat_id, prod, context, user_id)
Issue(handler, u, data, prod) ==
    \E tr \in InvoiceOutcomes(prod) :
    \E replyOk \in InvoiceReplies(prod, tr) :
    \E failing \in Failing(InvoiceNotifies(prod, tr, replyOk)) :
        LET r == send_invoice(MEMBERS, prod, u, now, tr, replyOk, failing)
        IN  /\ MEMBERS' = r.members
            /\ lastOp' = Op(handler, u, data, -1, r.reply, r.invoice, r.alert, r.raised, FALSE)

\* variant: the deep link goes straight to send_invoice
Purchase_start_ungated(handler, u, data, prod) ==
    IF handler # "start" /\ prod.key = PER_DOC_MEMBER.key /\ ~can_use_member_doc(MEMBERS, u, now)
    THEN Deny(handler, u, data)
    ELSE Issue(handler, u, data, prod)

\* variant: a denial drops the record that no longer counts
Purchase_purges_expired(handler, u, data, prod) ==
    IF prod.key = PER_DOC_MEMBER.key /\ ~can_use_member_doc(MEMBERS, u, now)
    THEN /\ MEMBERS' = [MEMBERS EXCEPT ![u] = IF is_member(MEMBERS, u, now) THEN @ ELSE NoRecord]
         /\ lastOp' = Op(handler, u, data, -1, "member_doc_denied", NoInvoice, NoAlert, FALSE, FALSE)
    ELSE Issue(handler, u, data, prod)

\* variant: paid members are refused the guest-priced document as well
Purchase_guest_doc_for_guests(handler, u, data, prod) ==
    IF \/ prod.key = PER_DOC_MEMBER.key /\ ~can_use_member_doc(MEMBERS, u, now)
       \/ prod.key = PER_DOC_GUEST.key /\ can_use_member_doc(MEMBERS, u, now)
    THEN Deny(handler, u, data)
    ELSE Issue(handler, u, data, prod)

\* the purchase path shared by start and on_buy_click once a product is found:
\* the member-document gate, then send_invoice
Purchase(handler, u, data, prod) ==
    IF prod.key = PER_DOC_MEMBER.key /\ ~can_use_member_doc(MEMBERS, u, now)
    THEN Deny(handler, u, data)
    ELSE Issue(handler, u, data, prod)

\* prod = find_product(arg.lower()) when the deep link carries an argument
start_product(arg) == IF arg # <<>> THEN find_product(Lower(arg)) ELSE NoProduct

start ==
    \E u \in Users, arg \in StartArgs :
        /\ Ready
        /\ LET prod == start_product(arg)
           IN  IF prod # NoProduct
               THEN Purchase("start", u, arg, prod)
               ELSE /\ UNCHANGED MEMBERS
                    /\ lastOp' = Op("start", u, arg, -1, "intro", NoInvoice, NoAlert, FALSE, FALSE)
        /\ lastPaid' = NoPaid
        /\ UNCHANGED <<tasks, grants>>
        /\ UNCHANGED <<now, ticks>>

\* key = q.data.split(":", 1)[1] if ":" in q.data else ""
callback_key(data) == IF Contains(data, COLON) THEN SplitTail1(data, COLON) ELSE <<>>

on_buy_click ==
    \E u \in Users, k \in InputKeys :
        /\ Ready
        /\ LET data == BUY_PREFIX \o k
               key  == callback_key(data)
               prod == find_product(key)
           IN  IF key = <<>>
               THEN /\ UNCHANGED MEMBERS
                    /\ lastOp' = Op("on_buy_click", u, data, -1, "invalid_selection",
                                    NoInvoice, NoAlert, FALSE, FALSE)
               ELSE IF prod = NoProduct
               THEN /\ UNCHANGED MEMBERS
                    /\ lastOp' = Op("on_buy_click", u, data, -1, "unknown_package",
                                    NoInvoice, NoAlert, FALSE, FALSE)
               ELSE Purchase("on_buy_click", u, data, prod)
        /\ lastPaid' = NoPaid
        /\ UNCHANGED <<tasks, grants>>
        /\ UNCHANGED <<now, ticks>>

on_dev_mem ==
    \E u \in Users, replyOk \in BOOLEAN :
    \E failing \in Failing(replyOk) :
        /\ Ready
        /\ MEMBERS' = SetMember(MEMBERS, u, MEM_VERIFIED.key, now)
        /\ lastOp' = Op("on_dev_mem", u, <<>>, -1,
                        IF replyOk THEN "dev_membership" ELSE "none", NoInvoice,
                        IF replyOk THEN admin_alert("Membership", 550, <<"D","E","V">>, failing)
                        ELSE NoAlert,
                        ~replyOk, FALSE)
        /\ lastPaid' = NoPaid
        /\ UNCHANGED <<tasks, grants>>
        /\ UNCHANGED <<now, ticks>>

on_dev_verify ==
    \E u \in Users :
        /\ Ready
        /\ UNCHANGED <<MEMBERS, now, ticks>>
        /\ IF ~can_use_member_doc(MEMBERS, u, now)
           THEN lastOp' = Op("on_dev_verify", u, <<>>, -1, "member_doc_denied",
                             NoInvoice, NoAlert, FALSE, FALSE)
           ELSE \E replyOk \in BOOLEAN :
                \E failing \in Failing(replyOk) :
                lastOp' = Op("on_dev_verify", u, <<>>, -1,
                             IF replyOk THEN "doc_payment_received" ELSE "none", NoInvoice,
                             IF replyOk
                             THEN admin_alert("Per-Document", PER_DOC_MEMBER.stars, <<"D","E","V">>, failing)
                             ELSE NoAlert,
                             ~replyOk, FALSE)
        /\ lastPaid' = NoPaid
        /\ UNCHANGED <<tasks, grants>>

\* answers every pre-checkout query with ok=True
precheckout ==
    \E u \in Users :
        /\ Ready
        /\ UNCHANGED <<MEMBERS, now, ticks>>
        /\ lastOp' = Op("precheckout", u, <<>>, -1, "ok", NoInvoice, NoAlert, FALSE, FALSE)
        /\ lastPaid' = NoPaid
        /\ UNCHANGED <<tasks, grants>>

\* variant: the whole payload is taken as the product key
payload_key_whole(payload) == payload

\* pkey = payload.split(":")[0] if ":" in payload else payload
payload_key(payload) == IF Contains(payload, COLON) THEN SplitHead(payload, COLON) ELSE payload

\* prod = find_product(pkey) or Product(pkey, pkey.title(), "", sp.total_amount)
paid_product(pkey, total_amount) ==
    IF find_product(pkey) # NoProduct THEN find_product(pkey)
    ELSE [key |-> pkey, stars |-> total_amount]

\* variant: everything but the guest document counts as a membership
is_membership_payment_not_guest(prod) == prod.key # PER_DOC_GUEST.key

\* prod.key.startswith("mem-")
is_membership_payment(prod) == StartsWith(prod.key, MEM_PREFIX)

\* the store after on_success for this product and payer
members_after_success(members, prod, user_id, t) ==
    IF is_membership_payment(prod) THEN SetMember(members, user_id, prod.key, t)
    ELSE members

\* the kind reported to the admins by on_success
success_kind(prod) ==
    IF is_membership_payment(prod) THEN "Membership"
    ELSE IF prod.key = PER_DOC_MEMBER.key THEN "Per-Document (Member)"
    ELSE "Per-Document (One-Time)"

\* the reply of on_success to the payer
success_reply(prod) ==
    IF is_membership_payment(prod) THEN "congratulations" ELSE "doc_payment_received"

on_success ==
    \E u \in Users, c \in Confirmations, replyOk \in BOOLEAN :
    \E failing \in Failing(replyOk) :
        /\ Ready
        /\ LET prod == paid_product(payload_key(c.payload), c.amount)
               dup  == /\ lastPaid = [user |-> u, payload |-> c.payload, amount |-> c.amount]
                       /\ is_membership_payment(prod)
           IN  /\ MEMBERS' = members_after_success(MEMBERS, prod, u, now)
               /\ lastOp' = Op("on_success", u, c.payload, c.amount,
                               IF replyOk THEN success_reply(prod) ELSE "none",
                               NoInvoice,
                               IF replyOk THEN admin_alert(success_kind(prod), c.amount, c.payload, failing)
                               ELSE NoAlert,
                               ~replyOk, dup)
        /\ lastPaid' = [user |-> u, payload |-> c.payload, amount |-> c.amount]
        /\ UNCHANGED <<tasks, grants>>
        /\ UNCHANGED <<now, ticks>>

Next ==
    \/ HandlerReturns
    \/ Tick
    \/ start
    \/ on_menu_home
    \/ on_back
    \/ on_restart
    \/ on_info
    \/ on_king
    \/ on_dev_mem
    \/ on_dev_verify
    \/ on_buy_click
    \/ precheckout
    \/ on_success

Spec == Init /\ [][Next]_vars

(***************************** stars_invoice_bot.py ************************)
\* The repository's minimal checkout bot: its own catalog, no membership
\* store, no admin notifications.  It runs as a process of its own; its
\* handlers read and write none of MEMBERS.
PACKAGES ==
    << [key |-> <<"b","a","s","i","c">>, stars |-> 100],
       [key |-> <<"f","u","l","l">>,     stars |-> 250],
       [key |-> <<"v","i","p">>,         stars |-> 500] >>

NoPackage == [key |-> <<>>, stars |-> -1]

get_pkg(key) ==
    IF \E i \in 1..Len(PACKAGES) : PACKAGES[i].key = key
    THEN PACKAGES[CHOOSE i \in 1..Len(PACKAGES) : PACKAGES[i].key = key]
    ELSE NoPackage

PKG_PREFIX == <<"p","k","g",COLON>>

\* f"pkg:{pkg.key}:{pkg.stars}"
pkg_payload(pkg) == PKG_PREFIX \o pkg.key \o <<COLON>> \o IntToStr(pkg.stars)

\* keys carried by the callback data the checkout bot receives
PackageInputKeys ==
    { PACKAGES[1].key, PACKAGES[2].key, PACKAGES[3].key, <<"d","o","c">>, <<>> }

\* what the last handler of the checkout bot did
PkgOp(handler, user, data, reply, invoice, raised) ==
    [NoOp(handler) EXCEPT !.user = user, !.data = data, !.reply = reply,
                          !.invoice = invoice, !.raised = raised]

stars_invoice_bot_start ==
    \E u \in Users :
        /\ Ready
        /\ lastOp' = PkgOp("stars_invoice_bot.start", u, <<>>, "packages", NoInvoice, FALSE)
        /\ lastPaid' = NoPaid
        /\ UNCHANGED <<tasks, grants>>
        /\ UNCHANGED <<MEMBERS, now, ticks>>

\* registered for callback data matching ^buy: , so data.startswith("buy:")
\* holds; bot.send_invoice is awaited with no try/except: a transport error
\* raises
stars_invoice_bot_on_buy_click ==
    \E u \in Users, k \in PackageInputKeys :
        /\ Ready
        /\ LET data == BUY_PREFIX \o k
               key  == SplitTail1(data, COLON)
               pkg  == get_pkg(key)
           IN  IF pkg = NoPackage
               THEN lastOp' = PkgOp("stars_invoice_bot.on_buy_click", u, data,
                                    "unknown_package", NoInvoice, FALSE)
               ELSE \E tr \in {"ok", "TelegramError"} :
                    lastOp' = PkgOp("stars_invoice_bot.on_buy_click", u, data, "none",
                                    [payload |-> pkg_payload(pkg), amount |-> pkg.stars,
                                     delivered |-> tr = "ok"],
                                    tr # "ok")
        /\ lastPaid' = NoPaid
        /\ UNCHANGED <<tasks, grants>>
        /\ UNCHANGED <<MEMBERS, now, ticks>>

stars_invoice_bot_precheckout ==
    \E u \in Users :
        /\ Ready
        /\ lastOp' = PkgOp("stars_invoice_bot.precheckout", u, <<>>, "ok", NoInvoice, FALSE)
        /\ lastPaid' = NoPaid
        /\ UNCHANGED <<tasks, grants>>
        /\ UNCHANGED <<MEMBERS, now, ticks>>

\* the payment is acknowledged; the payload and the amount are not read
stars_invoice_bot_on_success ==
    \E u \in Users, replyOk \in BOOLEAN :
        /\ Ready
        /\ lastOp' = PkgOp("stars_invoice_bot.on_success", u, <<>>,
                           IF replyOk THEN "payment_received" ELSE "none",
                           NoInvoice, ~replyOk)
        /\ lastPaid' = NoPaid
        /\ UNCHANGED <<tasks, grants>>
        /\ UNCHANGED <<MEMBERS, now, ticks>>

\* both bots of the repository, each handling its own updates
NextBoth ==
    \/ Next
    \/ stars_invoice_bot_start
    \/ stars_invoice_bot_on_buy_click
    \/ stars_invoice_bot_precheckout
    \/ stars_invoice_bot_on_success

SpecBoth == Init /\ [][NextBoth]_vars

(***************************** handlers in flight ***********************)
\* The handlers are coroutines on one event loop: were several updates
\* handled at once, a handler would give way to another only where it
\* awaits.  The steps below follow the grant paths from await to await; the
\* assignment MEMBERS[..] = {"tier": .., "paid_at": datetime.utcnow()} has
\* no await inside it.  grants[u] is the grant applied last to user u, as
\* the handler that applied it meant it.

\* the confirmations on_success treats as membership payments
MembershipConfirmations ==
    {c \in Confirmations :
        is_membership_payment(paid_product(payload_key(c.payload), c.amount))}

Suspend(handler, pc, user, wrote) ==
    [handler |-> handler, pc |-> pc, user |-> user, wrote |-> wrote]

\* on_success runs from its start to await update.message.reply_text(..)
conc_on_success ==
    \E t \in TaskIds, u \in Users, c \in MembershipConfirmations :
        LET prod == paid_product(payload_key(c.payload), c.amount)
            g    == [tier |-> prod.key, paid_at |-> now]
        IN  /\ tasks[t] = NoTask
            /\ MEMBERS' = members_after_success(MEMBERS, prod, u, now)
            /\ grants' = [grants EXCEPT ![u] = g]
            /\ tasks' = [tasks EXCEPT ![t] = Suspend("on_success", "reply", u, g)]
            /\ UNCHANGED <<now, ticks, lastOp, lastPaid>>

\* on_buy_click for "buy:mem-free" runs to await q.answer()
conc_on_buy_click ==
    \E t \in TaskIds, u \in Users :
        /\ tasks[t] = NoTask
        /\ tasks' = [tasks EXCEPT ![t] = Suspend("on_buy_click", "answer", u, NoRecord)]
        /\ UNCHANGED <<MEMBERS, grants, now, ticks, lastOp, lastPaid>>

\* on_buy_click resumes: find_product, the gate, and send_invoice up to
\* await context.bot.send_message(..)
conc_send_invoice ==
    \E t \in TaskIds :
        LET u == tasks[t].user
            g == [tier |-> MEM_FREE, paid_at |-> now]
        IN  /\ tasks[t].pc = "answer"
            /\ MEMBERS' = send_invoice(MEMBERS, find_product(MEM_FREE), u, now,
                                       "ok", TRUE, {}).members
            /\ grants' = [grants EXCEPT ![u] = g]
            /\ tasks' = [tasks EXCEPT ![t] = Suspend("on_buy_click", "reply", u, g)]
            /\ UNCHANGED <<now, ticks, lastOp, lastPaid>>

\* /start mem-free runs straight into send_invoice, to the same await
conc_start ==
    \E t \in TaskIds, u \in Users :
        LET g == [tier |-> MEM_FREE, paid_at |-> now]
        IN  /\ tasks[t] = NoTask
            /\ MEMBERS' = send_invoice(MEMBERS, start_product(MEM_FREE), u, now,
                                       "ok", TRUE, {}).members
            /\ grants' = [grants EXCEPT ![u] = g]
            /\ tasks' = [tasks EXCEPT ![t] = Suspend("start", "reply", u, g)]
            /\ UNCHANGED <<now, ticks, lastOp, lastPaid>>

\* the reply to the user is delivered, or raises and ends the handler
conc_reply ==
    \E t \in TaskIds, ok \in BOOLEAN :
        /\ tasks[t].pc = "reply"
        /\ tasks' = [tasks EXCEPT ![t] = IF ok THEN [@ EXCEPT !.pc = "admin_alert"]
                                         ELSE NoTask]
        /\ UNCHANGED <<MEMBERS, grants, now, ticks, lastOp, lastPaid>>

\* await admin_alert(..) completes and the handler returns
conc_admin_alert ==
    \E t \in TaskIds :
        /\ tasks[t].pc = "admin_alert"
        /\ tasks' = [tasks EXCEPT ![t] = NoTask]
        /\ UNCHANGED <<MEMBERS, grants, now, ticks, lastOp, lastPaid>>

NextConc ==
    \/ Tick
    \/ conc_on_success
    \/ conc_on_buy_click
    \/ conc_send_invoice
    \/ conc_start
    \/ conc_reply
    \/ conc_admin_alert

SpecConc == Init /\ [][NextConc]_vars

TypeOK ==
    /\ now \in Nat
    /\ ticks \in 0..MaxTicks
    /\ \A u \in Users : MEMBERS[u] = NoRecord \/ MEMBERS[u].paid_at \in 0..now

(***************************** the reference format ************************)
\* The reference "<productKey>:<price>" as the specification reads it.
DigitChars == {DigitChar[i] : i \in 1..Len(DigitChar)}

DigitValue(c) == (CHOOSE i \in 1..Len(DigitChar) : DigitChar[i] = c) - 1

RECURSIVE ParseInt(_)
ParseInt(s) == IF s = <<>> THEN 0
               ELSE 10 * ParseInt(SubSeq(s, 1, Len(s) - 1)) + DigitValue(s[Len(s)])

RefKey(ref) == SplitHead(ref, COLON)

RefPriceText(ref) == IF Contains(ref, COLON) THEN SplitTail1(ref, COLON) ELSE <<>>

WellFormedRef(ref) ==
    /\ Contains(ref, COLON)
    /\ RefKey(ref) # <<>>
    /\ RefPriceText(ref) # <<>>
    /\ \A i \in 1..Len(RefPriceText(ref)) : RefPriceText(ref)[i] \in DigitChars

RefPrice(ref) == ParseInt(RefPriceText(ref))

MembershipKeys == {MEMBERSHIP_TIERS[i].key : i \in 1..Len(MEMBERSHIP_TIERS)}

DocumentKeys == {PER_DOC_MEMBER.key, PER_DOC_GUEST.key}

CatalogKeys == MembershipKeys \cup DocumentKeys

Paid == lastOp.handler = "on_success"

PaymentKinds == {"Membership", "Per-Document (Member)", "Per-Document (One-Time)"}

\* the last confirmation was credited: acknowledged to the payer, reported
\* to the admins as a payment, or written to the store
Credited ==
    \/ lastOp.reply \in {"congratulations", "doc_payment_received"}
    \/ lastOp.alert.kind \in PaymentKinds
    \/ lastOp.changed # {}

\* a purchase attempt (deep link or button) and the key it names
PurchaseOf(key) ==
    \/ lastOp.handler = "start" /\ Lower(lastOp.data) = key
    \/ lastOp.handler = "on_buy_click" /\ lastOp.data = BUY_PREFIX \o key

\* the tier granted by the last step, NoTier when it granted none
GrantedTier ==
    IF Paid /\ StartsWith(RefKey(lastOp.data), MEM_PREFIX) THEN RefKey(lastOp.data)
    ELSE IF PurchaseOf(MEM_FREE) THEN MEM_FREE
    ELSE IF lastOp.handler = "on_dev_mem" THEN MEM_VERIFIED.key
    ELSE NoTier

(***************************** claims **************************************)
\* C1: a confirmation whose confirmed amount differs from the price declared
\* in its reference is rejected and changes no user's membership record.
C1_AmountMismatchRejected ==
    ( /\ Paid
      /\ WellFormedRef(lastOp.data)
      /\ RefKey(lastOp.data) \in CatalogKeys
      /\ RefPrice(lastOp.data) # lastOp.amount )
    => ~Credited

\* C2: right after a confirmation for a membership product p paid by u is
\* processed at time now, u's active membership has tier p.key and expires
\* at now + 30 days.
C2_MembershipGranted ==
    ( /\ Paid
      /\ WellFormedRef(lastOp.data)
      /\ RefKey(lastOp.data) \in MembershipKeys )
    => /\ MEMBERS[lastOp.user] # NoRecord
       /\ now - MEMBERS[lastOp.user].paid_at <= MEMBERSHIP_DURATION_DAYS
       /\ MEMBERS[lastOp.user].tier = RefKey(lastOp.data)
       /\ MEMBERS[lastOp.user].paid_at + MEMBERSHIP_DURATION_DAYS = now + 30

C2_Witness ==
    /\ Paid
    /\ RefKey(lastOp.data) = MEM_PRO.key
    /\ WellFormedRef(lastOp.data)
    /\ now > 0
    /\ lastOp.prior = NoTier
    /\ MEMBERS[lastOp.user].tier = MEM_PRO.key

\* C3: buying the member-priced document is denied exactly when the user
\* has no active membership or the active tier is the free tier.
C3_MemberDocGate ==
    ( lastOp.handler = "on_buy_click" /\ PurchaseOf(PER_DOC_MEMBER.key) )
    => ( lastOp.reply = "member_doc_denied"
         <=> ( \/ MEMBERS[lastOp.user] = NoRecord
               \/ now - MEMBERS[lastOp.user].paid_at > MEMBERSHIP_DURATION_DAYS
               \/ MEMBERS[lastOp.user].tier = MEM_FREE ) )

C3_Witness_Denied ==
    /\ lastOp.handler = "on_buy_click"
    /\ PurchaseOf(PER_DOC_MEMBER.key)
    /\ MEMBERS[lastOp.user].tier = MEM_FREE
    /\ lastOp.reply = "member_doc_denied"

C3_Witness ==
    /\ lastOp.handler = "on_buy_click"
    /\ PurchaseOf(PER_DOC_MEMBER.key)
    /\ MEMBERS[lastOp.user].tier = MEM_PRO.key
    /\ now - MEMBERS[lastOp.user].paid_at = MEMBERSHIP_DURATION_DAYS
    /\ lastOp.invoice.payload = InvoicePayload(PER_DOC_MEMBER)

\* C4: a confirmation whose reference names a key that is not in the
\* catalog is rejected: no membership record is created or changed.
C4_UnknownProductRejected ==
    ( /\ Paid
      /\ WellFormedRef(lastOp.data)
      /\ RefKey(lastOp.data) \notin CatalogKeys )
    => ~Credited

\* C5: a confirmation whose reference is not of the form
\* "<productKey>:<price>" is rejected and leaves the store unchanged.
C5_BadReferenceRejected ==
    ( Paid /\ ~WellFormedRef(lastOp.data) ) => ~Credited

\* C6: a membership record is created or changed only by a confirmed
\* membership payment of that user or by that user's free-tier activation.
C6_OnlyPaymentOrFreeWrites ==
    lastOp.changed # {}
    => /\ lastOp.changed = {lastOp.user}
       /\ \/ Paid /\ StartsWith(RefKey(lastOp.data), MEM_PREFIX)
          \/ PurchaseOf(MEM_FREE)

\* C7: after tier A and then tier B # A are granted to a user within the
\* 30-day window of A, the user's one record is that of B's grant: tier B
\* and B's grant time.
C7_GrantReplaces ==
    ( /\ GrantedTier # NoTier
      /\ lastOp.prior # NoTier
      /\ lastOp.prior # GrantedTier )
    => MEMBERS[lastOp.user] = [tier |-> GrantedTier, paid_at |-> now]

C7_Witness ==
    /\ GrantedTier = MEM_FREE
    /\ lastOp.prior = MEM_PRO.key
    /\ now > 0
    /\ MEMBERS[lastOp.user] = [tier |-> MEM_FREE, paid_at |-> now]

\* C8: issuing the free tier produces no payment request and grants the
\* membership directly: right after it the user's active tier is mem-free,
\* with no confirmation event processed.
C8_FreeActivation ==
    PurchaseOf(MEM_FREE)
    => /\ lastOp.invoice = NoInvoice
       /\ lastPaid = NoPaid
       /\ MEMBERS[lastOp.user] = [tier |-> MEM_FREE, paid_at |-> now]
       /\ tier_of(MEMBERS, lastOp.user, now) = MEM_FREE

C8_Witness ==
    /\ PurchaseOf(MEM_FREE)
    /\ lastOp.prior = NoTier
    /\ lastOp.reply = "free_activated"
    /\ tier_of(MEMBERS, lastOp.user, now) = MEM_FREE

C10_DocumentCredited ==
    ( /\ Paid
      /\ WellFormedRef(lastOp.data)
      /\ RefKey(lastOp.data) \in DocumentKeys )
    => /\ lastOp.changed = {}
       /\ \/ lastOp.raised
          \/ /\ lastOp.reply = "doc_payment_received"
             /\ lastOp.alert.kind \in {"Per-Document (Member)", "Per-Document (One-Time)"}

C10_Witness ==
    /\ Paid
    /\ RefKey(lastOp.data) = PER_DOC_MEMBER.key
    /\ lastOp.alert.kind = "Per-Document (Member)"
    /\ lastOp.changed = {}
    /\ \E v \in Users : v # lastOp.user /\ MEMBERS[v] # NoRecord
    /\ MEMBERS[lastOp.user] # NoRecord

\* the admins to which the last step's notification was attempted, in order
Notified == [i \in 1..Len(lastOp.alert.attempts) |-> lastOp.alert.attempts[i].to]

\* some send of the last step's notification failed
SomeDeliveryFailed ==
    /\ lastOp.alert # NoAlert
    /\ \E i \in 1..Len(lastOp.alert.attempts) : ~lastOp.alert.attempts[i].ok

\* C11: when the delivery of a notification to one admin fails, the send is
\* still attempted to every other admin, the handler does not raise, and a
\* membership granted before the notification stays in the store.
C11_FanOutIndependent ==
    SomeDeliveryFailed
    => /\ Notified = ADMIN_IDS
       /\ ~lastOp.raised
       /\ GrantedTier # NoTier
          => MEMBERS[lastOp.user] = [tier |-> GrantedTier, paid_at |-> now]

C11_Witness ==
    /\ Paid
    /\ GrantedTier = MEM_PRO.key
    /\ lastOp.alert.kind = "Membership"
    /\ ~lastOp.alert.attempts[1].ok
    /\ lastOp.alert.attempts[2] = [to |-> ADMIN_IDS[2], ok |-> TRUE]
    /\ MEMBERS[lastOp.user] = [tier |-> MEM_PRO.key, paid_at |-> now]

\* C12: every confirmed payment and every free activation is followed by
\* exactly one notification attempt to each configured admin, also when the
\* reply to the user cannot be delivered.
C12_EveryPaymentNotified ==
    (Paid \/ PurchaseOf(MEM_FREE))
    => /\ lastOp.alert.kind \in PaymentKinds
       /\ Notified = ADMIN_IDS

\* the last step was a purchase attempt through the deep link or a button
PurchaseAttempt == lastOp.handler \in {"start", "on_buy_click"}

\* issuance was reached: the reply is one that only send_invoice produces
IssuanceReplies == {"free_activated", "none", "manual_arrangement", "payment_unavailable"}

\* C13: a /start deep link for the member-priced document by a user the gate
\* denies (no active membership, or the free tier) is refused like a button
\* click: no invoice, no activation, no notification.
C13_DeepLinkGated ==
    ( /\ lastOp.handler = "start"
      /\ Lower(lastOp.data) = PER_DOC_MEMBER.key
      /\ lastOp.prior \in {NoTier, MEM_FREE} )
    => /\ lastOp.reply = "member_doc_denied"
       /\ lastOp.invoice = NoInvoice
       /\ lastOp.alert = NoAlert
       /\ lastOp.changed = {}

C13_Witness ==
    /\ lastOp.handler = "start"
    /\ lastOp.data = <<"V","e","r","i","f","y">>
    /\ lastOp.prior = MEM_FREE
    /\ lastOp.reply = "member_doc_denied"
    /\ lastOp.invoice = NoInvoice

\* C14: a user has no active membership exactly when no record is stored
\* for them or more than 30 days have passed since the grant: the
\* membership is still active at exactly 30 days and inactive after, as
\* long as no new grant is written.
C14_Expiry ==
    \A u \in Users :
        tier_of(MEMBERS, u, now) = NoTier
        <=> \/ MEMBERS[u] = NoRecord
            \/ now > MEMBERS[u].paid_at + 30

C14_Witness ==
    \E u, v \in Users :
        /\ MEMBERS[u] # NoRecord
        /\ now = MEMBERS[u].paid_at + 30
        /\ tier_of(MEMBERS, u, now) = MEMBERS[u].tier
        /\ MEMBERS[v] = NoRecord
        /\ tier_of(MEMBERS, v, now) = NoTier

\* a record is stored but more than 30 days old: the membership has lapsed
C14_Witness_Lapsed ==
    \E u \in Users :
        /\ MEMBERS[u] # NoRecord
        /\ now = MEMBERS[u].paid_at + 31
        /\ tier_of(MEMBERS, u, now) = NoTier

\* C15: evaluating the gate writes nothing: a purchase attempt for anything
\* but the free tier, denied or allowed, and in particular a denied attempt
\* on the member-priced document, leaves every membership record as it was.
C15_GateWritesNothing ==
    /\ (PurchaseAttempt /\ ~PurchaseOf(MEM_FREE)) => lastOp.changed = {}
    /\ lastOp.handler = "on_dev_verify" => lastOp.changed = {}
    /\ lastOp.reply = "member_doc_denied" => lastOp.changed = {}

\* a denied attempt by a user whose lapsed record is still stored
C15_Witness ==
    /\ PurchaseOf(PER_DOC_MEMBER.key)
    /\ lastOp.reply = "member_doc_denied"
    /\ lastOp.changed = {}
    /\ MEMBERS[lastOp.user] # NoRecord
    /\ now > MEMBERS[lastOp.user].paid_at + 30

\* C16: a purchase attempt for any catalog product other than the
\* member-priced document is never refused, whatever the user's record:
\* it reaches issuance (an invoice is handed to the transport, or the free
\* tier is activated).
C16_OthersAlwaysAllowed ==
    \A k \in CatalogKeys \ {PER_DOC_MEMBER.key} :
        PurchaseOf(k)
        => /\ lastOp.reply \in IssuanceReplies
           /\ IF k = MEM_FREE
              THEN MEMBERS[lastOp.user] = [tier |-> MEM_FREE, paid_at |-> now]
              ELSE lastOp.invoice.payload = k \o <<COLON>> \o IntToStr(lastOp.invoice.amount)

\* a paid member is allowed the guest-priced document
C16_Witness ==
    /\ PurchaseOf(PER_DOC_GUEST.key)
    /\ lastOp.prior \notin {NoTier, MEM_FREE}
    /\ lastOp.invoice.delivered
    /\ lastOp.invoice.amount = 350

\* a user with a lapsed record is allowed a membership tier
C16_Witness_Lapsed ==
    /\ PurchaseOf(MEM_KING.key)
    /\ MEMBERS[lastOp.user] # NoRecord
    /\ lastOp.prior = NoTier
    /\ lastOp.invoice.delivered

\* the key a button click carries after "buy:"
ClickKey == SubSeq(lastOp.data, Len(BUY_PREFIX) + 1, Len(lastOp.data))

\* the product key a purchase attempt of trust_trade_stars_bot names
AttemptKey == IF lastOp.handler = "start" THEN Lower(lastOp.data) ELSE Lower(ClickKey)

PackageKeys == {PACKAGES[i].key : i \in 1..Len(PACKAGES)}

PkgClick == lastOp.handler = "stars_invoice_bot.on_buy_click"

\* C17: a purchase attempt (deep link or button, in either bot) for a key
\* that is not in the catalog issues no invoice, activates nothing, notifies
\* nobody and changes no membership record.
C17_UnknownProductDenied ==
    /\ (PurchaseAttempt /\ AttemptKey \notin CatalogKeys)
       => /\ lastOp.reply \in {"unknown_package", "invalid_selection", "intro"}
          /\ lastOp.invoice = NoInvoice
          /\ lastOp.alert = NoAlert
          /\ lastOp.changed = {}
    /\ (PkgClick /\ Lower(ClickKey) \notin PackageKeys)
       => /\ lastOp.reply = "unknown_package"
          /\ lastOp.invoice = NoInvoice
          /\ lastOp.changed = {}

C17_Witness ==
    /\ lastOp.handler = "on_buy_click"
    /\ ClickKey = <<"d","o","c">>
    /\ lastOp.reply = "unknown_package"
    /\ lastOp.invoice = NoInvoice
    /\ MEMBERS[lastOp.user] # NoRecord
    /\ lastOp.prior # NoTier

C17_Witness_DeepLink ==
    /\ lastOp.handler = "start"
    /\ lastOp.data = <<"d","o","c">>
    /\ lastOp.reply = "intro"
    /\ lastOp.invoice = NoInvoice

C17_Witness_Pkg ==
    /\ PkgClick
    /\ ClickKey = <<"d","o","c">>
    /\ lastOp.reply = "unknown_package"

\* the catalog price of a key of trust_trade_stars_bot
CatalogPrice(k) ==
    LET all == {MEMBERSHIP_TIERS[i] : i \in 1..Len(MEMBERSHIP_TIERS)}
                 \cup {PER_DOC_MEMBER, PER_DOC_GUEST}
    IN  (CHOOSE p \in all : p.key = k).stars

PackagePrice(k) == PACKAGES[CHOOSE i \in 1..Len(PACKAGES) : PACKAGES[i].key = k].stars

\* ref reads exactly "<k>:<price>", the price in decimal with no leading zero
IsKeyPriceRef(ref, k, price) ==
    /\ WellFormedRef(ref)
    /\ RefKey(ref) = k
    /\ RefPriceText(ref)[1] # "0"
    /\ RefPrice(ref) = price

\* an invoice was handed to the transport by trust_trade_stars_bot
Invoiced == PurchaseAttempt /\ lastOp.invoice # NoInvoice

\* an invoice was handed to the transport by stars_invoice_bot
PkgInvoiced == PkgClick /\ lastOp.invoice # NoInvoice

C18_Witness_King ==
    /\ Invoiced
    /\ lastOp.invoice.delivered
    /\ lastOp.invoice.amount = 300000
    /\ lastOp.invoice.payload = MEM_KING.key \o <<COLON,"3","0","0","0","0","0">>

\* C19: a key is looked up regardless of letter case on every path: a
\* purchase attempt whose key, lower-cased, is in the catalog is never
\* answered as an unknown product, and a confirmation whose reference key,
\* lower-cased, is a membership tier grants that tier.
C19_CaseNormalizedLookup ==
    /\ (PurchaseAttempt /\ AttemptKey \in CatalogKeys)
       => lastOp.reply \notin {"unknown_package", "invalid_selection", "intro"}
    /\ (Paid /\ WellFormedRef(lastOp.data) /\ Lower(RefKey(lastOp.data)) \in MembershipKeys)
       => MEMBERS[lastOp.user] = [tier |-> Lower(RefKey(lastOp.data)), paid_at |-> now]

\* the transport refused the invoice handed to it by send_invoice
TransportFailed == PurchaseAttempt /\ lastOp.invoice # NoInvoice /\ ~lastOp.invoice.delivered

\* C20: when the transport fails to take the invoice of a non-free product,
\* the user is told so (or the handler raises), no membership record
\* changes, and no payment is acknowledged or reported to the admins.
C20_TransportFailureIsFailure ==
    TransportFailed
    => /\ lastOp.changed = {}
       /\ lastOp.reply \in {"payment_unavailable", "manual_arrangement", "none"}
       /\ lastOp.reply = "none" => lastOp.raised
       /\ lastOp.alert.kind \notin PaymentKinds
       /\ lastOp.alert # NoAlert => lastOp.alert.kind = "info"

C20_Witness ==
    /\ TransportFailed
    /\ AttemptKey = MEM_KING.key
    /\ lastOp.reply = "manual_arrangement"
    /\ lastOp.alert.kind = "info"
    /\ lastOp.changed = {}
    /\ MEMBERS[lastOp.user] # NoRecord

C20_Witness_Unavailable ==
    /\ TransportFailed
    /\ AttemptKey = PER_DOC_GUEST.key
    /\ lastOp.reply = "payment_unavailable"
    /\ lastOp.alert = NoAlert

\* C21: every stored membership record names a membership tier of the
\* catalog.
C21_TierInCatalog ==
    \A u \in Users : MEMBERS[u] # NoRecord => MEMBERS[u].tier \in MembershipKeys

\* C23: a purchase attempt, a free activation or a payment confirmation by
\* one user changes the membership record of no other user.
C23_OtherUsersUntouched ==
    (PurchaseAttempt \/ Paid) => lastOp.changed \subseteq {lastOp.user}

\* a confirmation and a free activation each wrote the record of their user
\* while the other user's record stayed
C23_Witness ==
    /\ Paid
    /\ lastOp.changed = {lastOp.user}
    /\ \E v \in Users :
          /\ v # lastOp.user
          /\ MEMBERS[v] = [tier |-> MEM_FREE, paid_at |-> 0]
    /\ now > 0

\* the last step credited a payment for the member-priced document
MemberDocCredited ==
    /\ Paid
    /\ RefKey(lastOp.data) = PER_DOC_MEMBER.key
    /\ lastOp.reply = "doc_payment_received"

\* C24: when a payment for the member-priced document is credited, the
\* payer holds an active paid membership at that moment.
C24_MemberDocNeedsMembership ==
    MemberDocCredited => lastOp.prior \notin {NoTier, MEM_FREE}

\* the tiers that are paid for
PaidTierKeys == MembershipKeys \ {MEM_FREE}

Racing(t1, t2) ==
    /\ t1 # t2
    /\ tasks[t1].user = tasks[t2].user
    /\ tasks[t1].wrote # NoRecord
    /\ tasks[t2].wrote # NoRecord

\* C22: however the handlers in flight interleave, the record stored for a
\* user is, tier and grant time together, the one grant applied last to
\* that user.
C22_LastGrantWins ==
    \A u \in Users : MEMBERS[u] = grants[u]

\* a confirmation and a free activation of the same user are both in flight,
\* they wrote different tiers at different times, and the record is the later
C22_Witness ==
    \E t1, t2 \in TaskIds :
        /\ Racing(t1, t2)
        /\ tasks[t1].handler = "on_success"
        /\ tasks[t2].handler = "on_buy_click"
        /\ tasks[t1].wrote = [tier |-> MEM_PRO.key, paid_at |-> 0]
        /\ tasks[t2].wrote.paid_at > 0
        /\ MEMBERS[tasks[t1].user] = tasks[t2].wrote

\* two confirmations of the same payment are in flight at once
C22_Witness_Duplicate ==
    \E t1, t2 \in TaskIds :
        /\ Racing(t1, t2)
        /\ tasks[t1].handler = "on_success"
        /\ tasks[t2].handler = "on_success"
        /\ tasks[t1].wrote.tier = tasks[t2].wrote.tier
        /\ tasks[t1].wrote.paid_at < tasks[t2].wrote.paid_at
        /\ MEMBERS[tasks[t1].user] = tasks[t2].wrote

====
